---- MODULE Spec2Model ----
(***************************************************************************)
(* The persistent vector index (FAISSStore), the depth- and page-budgeted  *)
(* crawl of KnowledgeExtractor.extract_knowledge_from_topic, and the       *)
(* holders of the index in the autonomous conversation loop.               *)
(*                                                                         *)
(* A text is a sequence of characters over a small alphabet:               *)
(*   "a", "b"  ordinary word characters                                    *)
(*   " "       a space                                                     *)
(*   "n"       a newline                                                   *)
(*   "s"       the 20 characters ===TEXT_SEPARATOR=== taken as one atom    *)
(* so that the delimiter "\n===TEXT_SEPARATOR===\n" is <<"n","s","n">>.    *)
(* A file is the sequence of characters written to it.                     *)
(***************************************************************************)
EXTENDS Integers, Sequences, FiniteSets, TLC

\* ------------------------------------------------------------------ bounds
\* Pages of the crawled site in the model of the conversation loop.
SysWebSize == 3
\* Pages of the crawled site in the model of one extractor's lifetime.
CrawlWebSize == 6
\* Length of the raw list of anchors a page may hold.
MaxRawLinks == 2
\* Largest max_pages / max_depth argument of a crawl.
MaxPagesBound == 6
MaxDepthBound == 2
\* Crawls started by the conversation loop, over all process runs.
MaxCalls == 3
\* Process restarts after the first start.
MaxRestarts == 1
\* MAX_SCRAPE_PAGES and MAX_SCRAPE_DEPTH of the configuration.
MaxScrapePages == 3
MaxScrapeDepth == 1
\* One store, call by call: vectors it may hold, vectors per add, top_k.
MaxStoreSize == 3
MaxBatch == 2
MaxTopK == 2
\* Texts given to the chunker hold 0..MaxWords words; chunk_size ranges over
\* 1..MaxChunkSize and overlap over 0..MaxChunkSize + 1.
MaxWords == 5
MaxChunkSize == 3
\* EmbeddingManager: chunks it may hold, and CHUNK_SIZE scaled to characters
\* of the model's texts.
MaxDocuments == 3
SplitterChunkSize == 3
\* Dimension of the embedding vectors.
Dimension == 2

\* ------------------------------------------------------- program constants
\* processed_count % 5 == 0
SavePeriod == 5
\* extract_links(self, url, max_links=10)
MaxLinksDefault == 10
\* _chunk_text(self, text, chunk_size=500, overlap=50), scaled to the
\* texts of the model (3 words per chunk, 1 word of overlap).
ChunkSizeDefault == 3
OverlapDefault == 1
\* remove_duplicates(distance_threshold=0.5): the threshold as a fraction.
ThresholdNum == 1
ThresholdDen == 2
\* if pages_processed > 3 (Brain.visit_and_update_memory)
SignificantPages == 3
\* faiss_store.search(..., top_k=5) in the conversation loop
ContextTopK == 5

\* ------------------------------------------------------------ sequences
Last(s) == s[Len(s)]
Front(s) == SubSeq(s, 1, Len(s) - 1)

RECURSIVE Flatten(_)
Flatten(ss) == IF ss = <<>> THEN <<>> ELSE Head(ss) \o Flatten(Tail(ss))

RECURSIVE SumSeq(_)
SumSeq(s) == IF s = <<>> THEN 0 ELSE Head(s) + SumSeq(Tail(s))

Count(s, c) == Cardinality({i \in 1..Len(s) : s[i] = c})

\* ------------------------------------------------------------------ texts
Delimiter == <<"n", "s", "n">>
Whitespace == {" ", "n"}

TextA == <<"a">>
TextB == <<"b">>
TextDelim == <<"a", "n", "s", "n", "b">>
TextLong == <<"a", " ", "b", " ", "a", " ", "b">>
PageTexts == <<TextA, TextDelim, TextA, TextLong, TextB, TextB>>

\* str.split(sep): the pieces between the leftmost non-overlapping
\* occurrences of sep; always at least one piece.
RECURSIVE SplitOn(_, _)
SplitOn(s, sep) ==
  LET hits == {i \in 1..(Len(s) - Len(sep) + 1) :
                 SubSeq(s, i, i + Len(sep) - 1) = sep}
  IN IF hits = {} THEN <<s>>
     ELSE LET i == CHOOSE h \in hits : \A g \in hits : h <= g
          IN <<SubSeq(s, 1, i - 1)>>
               \o SplitOn(SubSeq(s, i + Len(sep), Len(s)), sep)

\* str.split(): the maximal runs of non-whitespace characters.
RECURSIVE SplitWords(_)
SplitWords(s) ==
  IF s = <<>> THEN <<>>
  ELSE IF Head(s) \in Whitespace THEN SplitWords(Tail(s))
  ELSE LET ends == {i \in 1..Len(s) : s[i] \in Whitespace}
           e == IF ends = {} THEN Len(s) + 1
                ELSE CHOOSE h \in ends : \A g \in ends : h <= g
       IN <<SubSeq(s, 1, e - 1)>> \o SplitWords(SubSeq(s, e, Len(s)))

\* ' '.join(words)
RECURSIVE JoinWords(_)
JoinWords(ws) ==
  IF ws = <<>> THEN <<>>
  ELSE IF Len(ws) = 1 THEN ws[1]
  ELSE ws[1] \o <<" ">> \o JoinWords(Tail(ws))

Min(a, b) == IF a < b THEN a ELSE b

\* range(0, n, step) for n >= 0, as a sequence: empty for a negative step
\* (a step of 0 is a ValueError, see ChunkTextRaises).
RangeFrom0(n, step) ==
  IF step > 0
  THEN [k \in 1..((n + step - 1) \div step) |-> (k - 1) * step]
  ELSE <<>>

\* KnowledgeExtractor._chunk_text raises exactly when the loop is reached
\* with a step of 0: range() arg 3 must not be zero.
ChunkTextRaises(text, chunk_size, overlap) ==
  Len(SplitWords(text)) > chunk_size /\ chunk_size - overlap = 0

\* A chunker that emits only the windows holding chunk_size words.
ChunkTextFullWindows(text, chunk_size, overlap) ==
  LET words == SplitWords(text)
      n == Len(words)
      starts == SelectSeq(RangeFrom0(n, chunk_size - overlap),
                          LAMBDA i : i + chunk_size <= n)
  IN IF n <= chunk_size THEN <<text>>
     ELSE [k \in 1..Len(starts) |->
             JoinWords(SubSeq(words, starts[k] + 1, starts[k] + chunk_size))]

\* KnowledgeExtractor._chunk_text: the list it returns when it returns.
\* words[i:i + chunk_size] is empty when i + chunk_size <= i.
ChunkText(text, chunk_size, overlap) ==
  LET words == SplitWords(text)
      n == Len(words)
      starts == RangeFrom0(n, chunk_size - overlap)
  IN IF n <= chunk_size THEN <<text>>
     ELSE [k \in 1..Len(starts) |->
             JoinWords(SubSeq(words, starts[k] + 1,
                              Min(starts[k] + chunk_size, n)))]

\* ---------------------------------------------------------------- vectors
\* The embedding provider: one vector of the configured dimension per text.
\* Coordinate i counts the occurrences of the i-th character of the alphabet.
Alphabet == <<"a", "b", "s", " ", "n">>
EmbedOne(text) ==
  [i \in 1..Dimension |-> Count(text, Alphabet[((i - 1) % Len(Alphabet)) + 1])]
EmbedText(texts) == [k \in 1..Len(texts) |-> EmbedOne(texts[k])]

\* np.sum((vec - uvec)**2)
SquaredL2(v, w) == SumSeq([i \in 1..Len(v) |-> (v[i] - w[i]) * (v[i] - w[i])])

\* ------------------------------------------------------------------- URLs
\* A URL: its netloc, its path (a page number), its query string and the
\* suffix str.endswith sees.
Page(i) == [netloc |-> "site.org", path |-> i, query |-> <<>>, ext |-> ""]
PdfUrl == [netloc |-> "site.org", path |-> 0, query |-> <<>>, ext |-> ".pdf"]
SkippedExtensions == {".pdf", ".jpg", ".png", ".gif", ".css", ".js"}

\* topic.replace(' ', '+')
ReplaceSpaces(chars) ==
  [i \in 1..Len(chars) |-> IF chars[i] = " " THEN "+" ELSE chars[i]]
\* f"https://www.google.com/search?q={topic.replace(' ', '+')}"
SearchUrl(chars) ==
  [netloc |-> "www.google.com", path |-> 0,
   query |-> ReplaceSpaces(chars), ext |-> ""]

\* A topic: its characters, whether they start with http:// or https://,
\* and then the URL they spell. "u" stands for the characters of a URL.
UrlChars == <<"u">>
UrlTopic(u) == [http |-> TRUE, url |-> u, chars |-> UrlChars]
TextTopic(chars) == [http |-> FALSE, url |-> SearchUrl(<<>>), chars |-> chars]
\* The seed of a crawl.
StartUrl(topic) == IF topic.http THEN topic.url ELSE SearchUrl(topic.chars)

FreeTopic == TextTopic(<<"a", " ", "b">>)
LongTopic == TextTopic(<<"a", " ", "b", " ", "a", " ", "b">>)
\* The empty string.
EmptyTopic == TextTopic(<<>>)
Topics == {UrlTopic(Page(1)), FreeTopic, EmptyTopic}
\* The URLs anchors may point to, in a web of n pages.
Urls(n) == {Page(i) : i \in 1..n} \cup {StartUrl(FreeTopic), PdfUrl}
\* The text the page at a URL holds when its fetch succeeds.
PageText(u) ==
  IF u.netloc = "site.org" /\ u.path >= 1
  THEN PageTexts[((u.path - 1) % Len(PageTexts)) + 1]
  ELSE TextB
\* What a fetch may do: raise inside the scraper, or yield the page's text,
\* or yield nothing.
FetchOutcomes(u) ==
  {[raises |-> TRUE, text |-> <<>>],
   [raises |-> FALSE, text |-> <<>>],
   [raises |-> FALSE, text |-> PageText(u)]}
\* The anchors a page may hold.
RawLinkLists(n) == UNION {[1..k -> Urls(n)] : k \in 0..MaxRawLinks}

\* ------------------------------------------------------------- FAISSStore
Agents == {"brain", "ouro"}
Holders == {"brain", "brainKE", "ouro", "ouroKE", "loop"}
Extractors == {"brainKE", "ouroKE"}
\* The order in which autonomous_conversation_loop constructs the holders.
OpenOrder == <<"brain", "brainKE", "ouro", "ouroKE", "loop">>

NoBlob == [exists |-> FALSE, valid |-> FALSE, d |-> 0, vecs |-> <<>>]
NoTextsFile == [exists |-> FALSE, content |-> <<>>]
\* A holder that has not been constructed.
Closed == [d |-> 0, vecs |-> <<>>, texts |-> <<>>]

\* faiss.write_index(self.index, self.index_path)
WriteIndex(s) == [exists |-> TRUE, valid |-> TRUE, d |-> s.d, vecs |-> s.vecs]

\* The characters _try_save_texts writes for a list of texts.
Serialize(texts) == Flatten([k \in 1..Len(texts) |-> texts[k] \o Delimiter])

\* FAISSStore._try_save_texts: nothing is written for an empty list.
TrySaveTexts(s, file) ==
  IF s.texts = <<>> THEN file
  ELSE [exists |-> TRUE, content |-> Serialize(s.texts)]

\* FAISSStore.save_index
SaveIndex(s, dsk) ==
  [blob |-> WriteIndex(s), texts |-> TrySaveTexts(s, dsk.texts)]

\* FAISSStore._try_load_texts
TryLoadTexts(file) ==
  IF ~file.exists THEN <<>>
  ELSE LET parts == SplitOn(file.content, Delimiter)
       IN IF Last(parts) = <<>> THEN Front(parts) ELSE parts

\* FAISSStore.__init__ (with _create_new_index): the store and the disk after.
OpenStore(dsk) ==
  LET loaded == dsk.blob.exists /\ dsk.blob.valid
      fresh == [d |-> Dimension, vecs |-> <<>>, texts |-> <<>>]
      idx == IF loaded
             THEN [d |-> dsk.blob.d, vecs |-> dsk.blob.vecs, texts |-> <<>>]
             ELSE fresh
      dsk2 == IF loaded THEN dsk ELSE SaveIndex(fresh, dsk)
  IN [store |-> [idx EXCEPT !.texts = TryLoadTexts(dsk2.texts)], disk |-> dsk2]

\* FAISSStore.add_embeddings: index.add raises on vectors of another
\* dimension, before any text is stored; the error is logged.
AddEmbeddings(s, embeddings, texts) ==
  IF \E k \in 1..Len(embeddings) : Len(embeddings[k]) # s.d
  THEN [store |-> s, ok |-> FALSE]
  ELSE [store |-> [s EXCEPT !.vecs = @ \o embeddings,
                            !.texts = IF texts # <<>> THEN @ \o texts ELSE @],
        ok |-> TRUE]

\* A pass that stops looking after the first duplicate it drops.
GreedyPassOnce(vecs, i, kept, tnum, tden) ==
  LET n == Len(vecs)
      dup(m) == \E j \in 1..(m - 1) :
                  SquaredL2(vecs[m], vecs[j]) * tden < tnum
      first == IF \E m \in i..n : dup(m)
               THEN CHOOSE m \in i..n : dup(m) /\ \A l \in i..(m - 1) : ~dup(l)
               ELSE 0
  IN kept \o SelectSeq([k \in 1..n |-> k], LAMBDA k : k >= i /\ k # first)
\* A pass that also drops a record at exactly the threshold distance.
RECURSIVE GreedyPassInclusive(_, _, _, _, _)
GreedyPassInclusive(vecs, i, kept, tnum, tden) ==
  IF i > Len(vecs) THEN kept
  ELSE LET dup == \E j \in 1..Len(kept) :
                    SquaredL2(vecs[i], vecs[kept[j]]) * tden <= tnum
       IN GreedyPassInclusive(vecs, i + 1,
                              IF dup THEN kept ELSE Append(kept, i), tnum, tden)
\* A pass that compares a record with every earlier record, retained or not.
RECURSIVE GreedyPassAgainstAll(_, _, _, _, _)
GreedyPassAgainstAll(vecs, i, kept, tnum, tden) ==
  IF i > Len(vecs) THEN kept
  ELSE LET dup == \E j \in 1..(i - 1) :
                    SquaredL2(vecs[i], vecs[j]) * tden < tnum
       IN GreedyPassAgainstAll(vecs, i + 1,
                               IF dup THEN kept ELSE Append(kept, i),
                               tnum, tden)
\* The greedy pass of remove_duplicates: the indices kept, in order.
RECURSIVE GreedyPass(_, _, _, _, _)
GreedyPass(vecs, i, kept, tnum, tden) ==
  IF i > Len(vecs) THEN kept
  ELSE LET dup == \E j \in 1..Len(kept) :
                    SquaredL2(vecs[i], vecs[kept[j]]) * tden < tnum
       IN GreedyPass(vecs, i + 1,
                     IF dup THEN kept ELSE Append(kept, i), tnum, tden)
\* A pass that starts at the second record.
UniqueIndicesFromSecond(vecs, tnum, tden) ==
  GreedyPass(vecs, 2, <<>>, tnum, tden)
UniqueIndices(vecs, tnum, tden) == GreedyPass(vecs, 1, <<>>, tnum, tden)

\* FAISSStore.remove_duplicates with distance_threshold = tnum / tden: the
\* store and the disk after, and whether it raised. _retrieve_all_embeddings
\* reconstructs into buffers of the configured dimension; on an index loaded
\* with another dimension index.reconstruct refuses the buffer and the
\* exception leaves remove_duplicates before anything is changed.
RemoveDuplicates(s, dsk, tnum, tden) ==
  IF Len(s.vecs) < 2
  THEN [store |-> s, disk |-> dsk, raised |-> FALSE]
  ELSE LET ui == UniqueIndices(s.vecs, tnum, tden)
           texts2 == IF s.texts # <<>> /\ Len(s.texts) = Len(s.vecs)
                     THEN [k \in 1..Len(ui) |-> s.texts[ui[k]]]
                     ELSE s.texts
           s2 == [d |-> Dimension,
                  vecs |-> [k \in 1..Len(ui) |-> s.vecs[ui[k]]],
                  texts |-> texts2]
       IN IF s.d # Dimension
          THEN [store |-> s, disk |-> dsk, raised |-> TRUE]
          ELSE [store |-> s2, disk |-> SaveIndex(s2, dsk), raised |-> FALSE]

\* index.search(query, k) of faiss.IndexFlatL2 (faiss-cpu >= 1.7.4): the
\* positions of the k records nearest to q, by ascending squared distance;
\* the result heap orders equal distances by ascending id.
NearestFirst(vecs, q) ==
  LET n == Len(vecs)
      dist(i) == SquaredL2(q, vecs[i])
      before(j, i) == dist(j) < dist(i) \/ (dist(j) = dist(i) /\ j < i)
      rank(i) == 1 + Cardinality({j \in 1..n : before(j, i)})
  IN [r \in 1..n |-> CHOOSE i \in 1..n : rank(i) = r]

\* A search that passes top_k on without clamping it to the record count:
\* index.search fills the missing results with id -1 (position 0) and the
\* largest distance.
SearchUnclamped(s, q, top_k) ==
  LET n == Len(s.vecs)
      order == NearestFirst(s.vecs, q)
      ids == [r \in 1..top_k |-> IF r <= n THEN order[r] ELSE 0]
      hasTexts == s.texts # <<>> /\ Len(s.texts) >= n
  IN IF top_k <= 0 \/ Len(q) # s.d
     THEN [raised |-> TRUE, distances |-> <<>>, ids |-> <<>>,
           hasTexts |-> FALSE, texts |-> <<>>]
     ELSE [raised |-> FALSE,
           distances |-> [r \in 1..top_k |->
                            IF r <= n THEN SquaredL2(q, s.vecs[ids[r]])
                            ELSE 2 ^ 30],
           ids |-> ids,
           hasTexts |-> hasTexts,
           texts |-> IF hasTexts
                     THEN [r \in 1..top_k |->
                             IF r <= n THEN s.texts[ids[r]] ELSE Last(s.texts)]
                     ELSE <<>>]

\* FAISSStore.search: distances, positions (id + 1) and texts, or the
\* exception of index.search, which refuses k <= 0 and a query of another
\* dimension. hasTexts is FALSE where the method returns None for texts.
Search(s, q, top_k) ==
  LET k == Min(top_k, Len(s.vecs))
      order == NearestFirst(s.vecs, q)
      ids == [r \in 1..k |-> order[r]]
      hasTexts == s.texts # <<>> /\ Len(s.texts) >= Len(s.vecs)
  IN IF k <= 0 \/ Len(q) # s.d
     THEN [raised |-> TRUE, distances |-> <<>>, ids |-> <<>>,
           hasTexts |-> FALSE, texts |-> <<>>]
     ELSE [raised |-> FALSE,
           distances |-> [r \in 1..k |-> SquaredL2(q, s.vecs[ids[r]])],
           ids |-> ids,
           hasTexts |-> hasTexts,
           texts |-> IF hasTexts THEN [r \in 1..k |-> s.texts[ids[r]]]
                     ELSE <<>>]

\* The holders of `order` constructed one after the other.
RECURSIVE OpenAll(_, _, _)
OpenAll(order, dsk, st) ==
  IF order = <<>> THEN [store |-> st, disk |-> dsk]
  ELSE LET o == OpenStore(dsk)
       IN OpenAll(Tail(order), o.disk, [st EXCEPT ![Head(order)] = o.store])

\* A filter loop without the comparison of the link's domain.
RECURSIVE FilterLinksAnyDomain(_, _, _, _, _)
FilterLinksAnyDomain(links, base_domain, vis, max_links, acc) ==
  IF links = <<>> THEN acc
  ELSE LET link == Head(links)
           skip == link \in vis \/ link.ext \in SkippedExtensions
       IN IF skip
          THEN FilterLinksAnyDomain(Tail(links), base_domain, vis, max_links,
                                    acc)
          ELSE IF Len(acc) + 1 >= max_links THEN Append(acc, link)
          ELSE FilterLinksAnyDomain(Tail(links), base_domain, vis, max_links,
                                    Append(acc, link))
\* WebScraper.extract_links, the filter loop over the anchors found.
RECURSIVE FilterLinks(_, _, _, _, _)
FilterLinks(links, base_domain, vis, max_links, acc) ==
  IF links = <<>> THEN acc
  ELSE LET link == Head(links)
           skip == \/ link \in vis
                   \/ (base_domain # "" /\ link.netloc # base_domain)
                   \/ link.ext \in SkippedExtensions
       IN IF skip
          THEN FilterLinks(Tail(links), base_domain, vis, max_links, acc)
          ELSE IF Len(acc) + 1 >= max_links THEN Append(acc, link)
          ELSE FilterLinks(Tail(links), base_domain, vis, max_links,
                           Append(acc, link))
ExtractLinks(u, raw, vis, max_links) ==
  FilterLinks(raw, u.netloc, vis, max_links, <<>>)

\* WebScraper.scrape_text on an unvisited URL: what it returns for a fetch
\* outcome (every exception of the fetch is caught and logged), and whether
\* an exception leaves it.
ScrapeResult(outcome) ==
  [text |-> IF outcome.raises THEN <<>> ELSE outcome.text, raised |-> FALSE]

\* ------------------------------------------------------------------ state
VARIABLES
  disk,             \* the two files at the index path: blob and .texts
  store,            \* each holder's FAISSStore: index dimension, vectors, texts
  visited,          \* each extractor's scraper.visited_urls
  lp,               \* where the conversation loop (or the driver) stands
  who,              \* the extractor whose crawl is running
  pc,               \* where extract_knowledge_from_topic stands
  max_pages, max_depth,
  urls_to_visit,    \* the frontier: a FIFO of <<url, depth>>
  processed_count,
  url, depth, text, \* locals of the loop body
  calls,            \* crawls started so far
  dequeued,         \* history: the URLs dequeued by the running crawl
  scrapeLog,        \* history: the URLs each extractor's scraper fetched
  unsaved,          \* history: pages counted since the extractor's last save
  pagesAdded,       \* history: pages of this crawl whose add_embeddings succeeded
  chunksAppended,   \* history: chunks of the pages of this crawl that were added
  startCount,       \* history: the index count when the crawl started
  interruptedAt,    \* history: pc of the crawl when Ctrl+C arrived
  restarts,         \* process starts after the first
  explored,         \* Brain.explored_topics and Ouro.recent_topics
  persisted,        \* history: the vectors extractors appended and then saved
  last              \* history: the last call made on a store or the chunker

vars == <<disk, store, visited, lp, who, pc, max_pages, max_depth,
          urls_to_visit, processed_count, url, depth, text, calls, dequeued,
          scrapeLog, unsaved, pagesAdded, chunksAppended, startCount,
          interruptedAt, restarts, explored, persisted, last>>
locals == <<url, depth, text>>
params == <<who, max_pages, max_depth>>
counts == <<pagesAdded, chunksAppended, startCount>>

\* No call recorded.
NoCall == [op |-> "none"]

\* -------------------------------------------------- the disk at first start
FreshDisk == [blob |-> NoBlob, texts |-> NoTextsFile]
\* The index initialize_faiss.py leaves: starter texts and their embeddings.
StarterTexts == <<TextB, TextB>>
SeededDisk ==
  SaveIndex([d |-> Dimension, vecs |-> EmbedText(StarterTexts),
             texts |-> StarterTexts], FreshDisk)
\* An index written under another EMBEDDING_DIM.
ForeignDisk ==
  [blob |-> [exists |-> TRUE, valid |-> TRUE, d |-> Dimension + 1,
             vecs |-> <<>>],
   texts |-> NoTextsFile]

\* ------------------------------------------ extract_knowledge_from_topic
\* while urls_to_visit and processed_count < max_pages
\* The loop head with an inclusive bound: one page more than the limit.
LoopContinuesInclusive(queue, count, limit) == queue # <<>> /\ count <= limit
LoopContinues(queue, count, limit) == queue # <<>> /\ count < limit
\* The loop body without the `if not text: continue` guard.
AfterScrapeUnguarded(t) == "embed"
\* if not text: continue
AfterScrape(t) == IF t = <<>> THEN "loop" ELSE "embed"
\* A periodic save that comes one page later than every fifth.
CheckpointDueEverySixth(count) == count % (SavePeriod + 1) = 0
\* if processed_count % 5 == 0
CheckpointDue(count) == count % SavePeriod = 0
\* Links put in front of the frontier instead of behind it.
EnqueueAtFront(queue, links, d) ==
  [k \in 1..Len(links) |-> <<links[k], d + 1>>] \o queue
\* Links enqueued at the depth of the page they were found on.
EnqueueAtSameDepth(queue, links, d) ==
  queue \o [k \in 1..Len(links) |-> <<links[k], d>>]
\* for link in links: urls_to_visit.append((link, depth + 1))
Enqueue(queue, links, d) ==
  queue \o [k \in 1..Len(links) |-> <<links[k], d + 1>>]

\* The vectors the running crawl has appended to its extractor's index.
Appended ==
  {store[who].vecs[i] : i \in (startCount + 1)..Len(store[who].vecs)}

\* Lines 611-623: the seed and the counters.
StartCrawl(k, topic, mp, md) ==
  /\ who' = k
  /\ max_pages' = mp
  /\ max_depth' = md
  /\ urls_to_visit' = << <<StartUrl(topic), 0>> >>
  /\ processed_count' = 0
  /\ pc' = "loop"
  /\ calls' = calls + 1
  /\ dequeued' = <<>>
  /\ pagesAdded' = 0
  /\ chunksAppended' = 0
  /\ startCount' = Len(store[k].vecs)
  /\ unsaved' = 0
  /\ UNCHANGED <<disk, store, visited, locals, scrapeLog, interruptedAt,
                 restarts, persisted, last>>

\* Lines 625-631: pop the head of the frontier; skip it if too deep.
Dequeue ==
  /\ pc = "loop"
  /\ LoopContinues(urls_to_visit, processed_count, max_pages)
  /\ url' = Head(urls_to_visit)[1]
  /\ depth' = Head(urls_to_visit)[2]
  /\ urls_to_visit' = Tail(urls_to_visit)
  /\ dequeued' = Append(dequeued, Head(urls_to_visit)[1])
  /\ pc' = IF Head(urls_to_visit)[2] > max_depth THEN "loop" ELSE "scrape"
  /\ UNCHANGED <<disk, store, visited, lp, params, processed_count, text,
                 calls, scrapeLog, unsaved, counts, interruptedAt,
                 restarts, explored, last, persisted>>

\* Lines 634-636 with WebScraper.scrape_text: a visited URL yields "".
ScrapeStep ==
  /\ pc = "scrape"
  /\ IF url \in visited[who]
     THEN /\ text' = <<>>
          /\ pc' = AfterScrape(<<>>)
          /\ UNCHANGED <<visited, scrapeLog>>
     ELSE \E o \in FetchOutcomes(url) :
            /\ visited' = [visited EXCEPT ![who] = @ \cup {url}]
            /\ scrapeLog' = [scrapeLog EXCEPT ![who] = Append(@, url)]
            /\ text' = ScrapeResult(o).text
            /\ pc' = IF ScrapeResult(o).raised THEN "raised"
                     ELSE AfterScrape(ScrapeResult(o).text)
  /\ UNCHANGED <<disk, store, lp, params, urls_to_visit, processed_count,
                 url, depth, calls, dequeued, unsaved, counts, interruptedAt,
                 restarts, explored, last, persisted>>

\* Lines 639-646: chunk, embed, add, count.
EmbedStep ==
  /\ pc = "embed"
  /\ LET chunks == ChunkText(text, ChunkSizeDefault, OverlapDefault)
         r == AddEmbeddings(store[who], EmbedText(chunks), chunks)
     IN IF chunks # <<>>
        THEN /\ store' = [store EXCEPT ![who] = r.store]
             /\ processed_count' = processed_count + 1
             /\ pagesAdded' = pagesAdded + (IF r.ok THEN 1 ELSE 0)
             /\ unsaved' = unsaved + 1
             /\ chunksAppended' =
                  chunksAppended + (IF r.ok THEN Len(chunks) ELSE 0)
        ELSE UNCHANGED <<store, processed_count, pagesAdded, unsaved,
                         chunksAppended>>
  /\ pc' = "links"
  /\ UNCHANGED <<disk, visited, lp, params, urls_to_visit, locals, calls,
                 dequeued, scrapeLog, startCount, interruptedAt,
                 restarts, explored, last, persisted>>

\* Lines 649-654: below max_depth, enqueue the page's filtered links.
LinksStep(n) ==
  /\ pc = "links"
  /\ IF depth < max_depth
     THEN \E raw \in RawLinkLists(n) :
            urls_to_visit' =
              Enqueue(urls_to_visit,
                      ExtractLinks(url, raw, visited[who], MaxLinksDefault),
                      depth)
     ELSE UNCHANGED urls_to_visit
  /\ pc' = "checkpoint"
  /\ UNCHANGED <<disk, store, visited, lp, params, processed_count, locals,
                 calls, dequeued, scrapeLog, unsaved, counts, interruptedAt,
                 restarts, explored, last, persisted>>

\* Lines 657-658: the periodic save.
CheckpointStep ==
  /\ pc = "checkpoint"
  /\ IF CheckpointDue(processed_count)
     THEN /\ disk' = SaveIndex(store[who], disk)
          /\ unsaved' = 0
          /\ persisted' = persisted \cup Appended
     ELSE UNCHANGED <<disk, unsaved, persisted>>
  /\ pc' = "loop"
  /\ UNCHANGED <<store, visited, lp, params, urls_to_visit, processed_count,
                 locals, calls, dequeued, scrapeLog, counts, interruptedAt,
                 restarts, explored, last>>

\* Lines 660-664: the loop has ended; the final save, then the return.
FinalSaveStep ==
  /\ pc = "loop"
  /\ ~LoopContinues(urls_to_visit, processed_count, max_pages)
  /\ disk' = SaveIndex(store[who], disk)
  /\ unsaved' = 0
  /\ persisted' = persisted \cup Appended
  /\ pc' = "return"
  /\ UNCHANGED <<store, visited, lp, params, urls_to_visit, processed_count,
                 locals, calls, dequeued, scrapeLog, counts, interruptedAt,
                 restarts, explored, last>>

CrawlStep(n) ==
  \/ Dequeue
  \/ ScrapeStep
  \/ EmbedStep
  \/ LinksStep(n)
  \/ CheckpointStep
  \/ FinalSaveStep

\* ------------------------------------- one call on a new extractor (driver)
\* KnowledgeExtractor(): the scraper and the store are constructed.
InitCrawl ==
  /\ \E d0 \in {FreshDisk, SeededDisk, ForeignDisk} :
       /\ disk = OpenStore(d0).disk
       /\ store = [h \in Holders |->
                     IF h = "brainKE" THEN OpenStore(d0).store ELSE Closed]
  /\ visited = [k \in Extractors |-> {}]
  /\ scrapeLog = [k \in Extractors |-> <<>>]
  /\ lp = "driver"
  /\ who = "brainKE"
  /\ pc = "idle"
  /\ max_pages = 0 /\ max_depth = 0
  /\ urls_to_visit = <<>>
  /\ processed_count = 0
  /\ url = Page(1) /\ depth = 0 /\ text = <<>>
  /\ calls = 0
  /\ dequeued = <<>>
  /\ unsaved = 0 /\ pagesAdded = 0 /\ chunksAppended = 0 /\ startCount = 0
  /\ interruptedAt = "none"
  /\ restarts = 0
  /\ explored = [a \in Agents |-> {}]
  /\ last = NoCall
  /\ persisted = {}

\* A caller invokes extract_knowledge_from_topic(topic, max_depth, max_pages).
CallExtract ==
  /\ lp = "driver"
  /\ pc = "idle"
  /\ calls = 0
  /\ \E topic \in Topics, mp \in 0..MaxPagesBound, md \in 0..MaxDepthBound :
       StartCrawl("brainKE", topic, mp, md)
  /\ UNCHANGED <<lp, explored, last>>

\* return processed_count
ReturnToDriver ==
  /\ lp = "driver"
  /\ pc = "return"
  /\ pc' = "idle"
  /\ UNCHANGED <<disk, store, visited, lp, params, urls_to_visit,
                 processed_count, locals, calls, dequeued, scrapeLog, unsaved,
                 counts, interruptedAt, restarts, explored, last, persisted>>

NextCrawl ==
  \/ CallExtract
  \/ CrawlStep(CrawlWebSize)
  \/ ReturnToDriver

SpecCrawl == InitCrawl /\ [][NextCrawl]_vars
\* The crawl is one sequential loop: when every fetch and every link
\* extraction returns, the loop does not stay at a statement for ever. A
\* crawl step is enabled at every position of the loop and every step but
\* the skip of a too deep entry, which shortens the frontier, changes the
\* position; so fairness of leaving the position is fairness of CrawlStep.
CrawlPositions == {"loop", "scrape", "embed", "links", "checkpoint"}
LeavesPosition ==
  /\ pc \in CrawlPositions
  /\ pc' \in CrawlPositions \cup {"return"}
SpecCrawlFair == SpecCrawl /\ WF_pc(LeavesPosition)

\* ------------------------------------------- autonomous_conversation_loop
\* Brain(), Ouro() and the loop's own FAISSStore, constructed in order.
OpenedAll(d0) == OpenAll(OpenOrder, d0, [h \in Holders |-> Closed])

StartProcess(d0) ==
  /\ disk = OpenedAll(d0).disk
  /\ store = OpenedAll(d0).store
  /\ visited = [k \in Extractors |-> {}]
  /\ scrapeLog = [k \in Extractors |-> <<>>]
  /\ lp = "brain_visit"
  /\ who = "brainKE"
  /\ pc = "idle"
  /\ max_pages = 0 /\ max_depth = 0
  /\ urls_to_visit = <<>>
  /\ processed_count = 0
  /\ url = Page(1) /\ depth = 0 /\ text = <<>>
  /\ calls = 0
  /\ dequeued = <<>>
  /\ unsaved = 0 /\ pagesAdded = 0 /\ chunksAppended = 0 /\ startCount = 0
  /\ interruptedAt = "none"
  /\ explored = [a \in Agents |-> {}]
  /\ last = NoCall

Init ==
  /\ \E d0 \in {FreshDisk, SeededDisk} : StartProcess(d0)
  /\ restarts = 0
  /\ persisted = {}

\* The topics the topic extractor may hand to an agent.
SysTopics == {UrlTopic(Page(1)), LongTopic, EmptyTopic}
\* if not topic or not topic.strip()
NoTopic(topic) == SplitWords(topic.chars) = <<>>

\* The phrases an agent may put before a topic it has met before; "x" and
\* "y" each stand for one of them.
Angles == {<<"x">>, <<"y">>}
Modifiers == {<<"x">>, <<"y">>}
\* f"{angle} {topic}": the result no longer starts with http.
Prefixed(prefix, topic) == TextTopic(prefix \o <<" ">> \o topic.chars)
\* m in topic
Contains(chars, m) ==
  \E i \in 1..(Len(chars) - Len(m) + 1) : SubSeq(chars, i, i + Len(m) - 1) = m
\* Brain._add_topic_variation
AddTopicVariation(topic, angle) ==
  IF Len(SplitWords(topic.chars)) <= 3 THEN Prefixed(angle, topic) ELSE topic
\* Ouro._modify_topic_for_diversity
ModifyTopicForDiversity(topic, modifier) ==
  IF /\ Len(SplitWords(topic.chars)) <= 3
     /\ ~\E m \in Modifiers : Contains(topic.chars, m)
  THEN Prefixed(modifier, topic)
  ELSE topic

\* What an agent does with the count extract_knowledge_from_topic returned:
\* Brain cleans its index after more than 3 pages, Ouro after any.
BrainCleans(pages) == pages > SignificantPages
OuroCleans(pages) == pages > 0

\* faiss_store.search(embedder.embed_text([message]), top_k=5) on the loop's
\* store: whether it raises. The result only feeds the prompt of the reply.
ContextSearchRaises ==
  Search(store["loop"], EmbedOne(TextA), ContextTopK).raised

\* Steps 1-4 of a cycle: the context search, then
\* Brain.visit_and_update_memory up to the call of the extractor. An
\* exception of the search ends the cycle (except Exception) and the loop
\* starts the next one.
BrainVisit ==
  /\ lp = "brain_visit"
  /\ pc = "idle"
  /\ calls < MaxCalls
  /\ ~ContextSearchRaises
  /\ \E topic \in SysTopics, angle \in Angles :
       IF NoTopic(topic)
       THEN /\ lp' = "ouro_visit"
            /\ UNCHANGED <<disk, store, visited, params, pc, urls_to_visit,
                           processed_count, locals, calls, dequeued, scrapeLog,
                           unsaved, counts, interruptedAt, restarts, explored, last,
                           persisted>>
       ELSE /\ lp' = "brain_crawl"
            /\ explored' = [explored EXCEPT !["brain"] = @ \cup {topic}]
            /\ StartCrawl("brainKE",
                          IF topic \in explored["brain"]
                          THEN AddTopicVariation(topic, angle) ELSE topic,
                          MaxScrapePages, MaxScrapeDepth)

\* Brain.visit_and_update_memory, after the extractor returned.
BrainAfter ==
  /\ lp = "brain_crawl"
  /\ pc = "return"
  /\ LET r == RemoveDuplicates(store["brain"], disk, ThresholdNum, ThresholdDen)
     IN IF BrainCleans(processed_count)
        THEN /\ store' = [store EXCEPT !["brain"] = r.store]
             /\ disk' = r.disk
        ELSE UNCHANGED <<store, disk>>
  /\ lp' = "ouro_visit"
  /\ pc' = "idle"
  /\ UNCHANGED <<visited, params, urls_to_visit, processed_count, locals,
                 calls, dequeued, scrapeLog, unsaved, counts, interruptedAt,
                 restarts, explored, last, persisted>>

\* The context search of step 1 or 5 raised: the cycle is abandoned.
CycleFails ==
  /\ lp \in {"brain_visit", "ouro_visit"}
  /\ pc = "idle"
  /\ ContextSearchRaises
  /\ lp' = "brain_visit"
  /\ UNCHANGED <<disk, store, visited, params, pc, urls_to_visit,
                 processed_count, locals, calls, dequeued, scrapeLog, unsaved,
                 counts, interruptedAt, restarts, explored, last, persisted>>

\* Steps 5-8 of a cycle: the context search, then
\* Ouro.visit_and_update_memory up to the call of the extractor.
OuroVisit ==
  /\ lp = "ouro_visit"
  /\ pc = "idle"
  /\ calls < MaxCalls
  /\ ~ContextSearchRaises
  /\ \E topic \in SysTopics, modifier \in Modifiers :
       IF NoTopic(topic)
       THEN /\ lp' = "maintenance"
            /\ UNCHANGED <<disk, store, visited, params, pc, urls_to_visit,
                           processed_count, locals, calls, dequeued, scrapeLog,
                           unsaved, counts, interruptedAt, restarts, explored, last,
                           persisted>>
       ELSE /\ lp' = "ouro_crawl"
            /\ explored' = [explored EXCEPT !["ouro"] = @ \cup {topic}]
            /\ StartCrawl("ouroKE",
                          IF topic \in explored["ouro"]
                          THEN ModifyTopicForDiversity(topic, modifier)
                          ELSE topic,
                          MaxScrapePages, MaxScrapeDepth)

\* Ouro.visit_and_update_memory, after the extractor returned.
OuroAfter ==
  /\ lp = "ouro_crawl"
  /\ pc = "return"
  /\ LET r == RemoveDuplicates(store["ouro"], disk, ThresholdNum, ThresholdDen)
     IN IF OuroCleans(processed_count)
        THEN /\ store' = [store EXCEPT !["ouro"] = r.store]
             /\ disk' = r.disk
        ELSE UNCHANGED <<store, disk>>
  /\ lp' = "maintenance"
  /\ pc' = "idle"
  /\ UNCHANGED <<visited, params, urls_to_visit, processed_count, locals,
                 calls, dequeued, scrapeLog, unsaved, counts, interruptedAt,
                 restarts, explored, last, persisted>>

\* if random.random() < 0.1: faiss_store.remove_duplicates(0.5)
Maintenance ==
  /\ lp = "maintenance"
  /\ \E clean \in BOOLEAN :
       LET r == RemoveDuplicates(store["loop"], disk, ThresholdNum, ThresholdDen)
       IN IF clean
          THEN /\ store' = [store EXCEPT !["loop"] = r.store]
               /\ disk' = r.disk
          ELSE UNCHANGED <<store, disk>>
  /\ lp' = "brain_visit"
  /\ UNCHANGED <<visited, params, pc, urls_to_visit, processed_count, locals,
                 calls, dequeued, scrapeLog, unsaved, counts, interruptedAt,
                 restarts, explored, last, persisted>>

\* The store the KeyboardInterrupt handler saves.
InterruptSaves == "loop"

\* except KeyboardInterrupt: faiss_store.save_index(). Ctrl+C may arrive
\* between any two steps; it passes every `except Exception`.
Interrupt ==
  /\ lp \in {"brain_visit", "brain_crawl", "ouro_visit", "ouro_crawl",
             "maintenance"}
  /\ disk' = SaveIndex(store[InterruptSaves], disk)
  /\ interruptedAt' = pc
  /\ lp' = "stopped"
  /\ UNCHANGED <<store, visited, params, pc, urls_to_visit, processed_count,
                 locals, calls, dequeued, scrapeLog, unsaved, counts,
                 restarts, explored, last, persisted>>

\* The process is started again on the files the last run left.
Restart ==
  /\ lp = "stopped"
  /\ restarts < MaxRestarts
  /\ restarts' = restarts + 1
  /\ disk' = OpenedAll(disk).disk
  /\ store' = OpenedAll(disk).store
  /\ visited' = [k \in Extractors |-> {}]
  /\ scrapeLog' = [k \in Extractors |-> <<>>]
  /\ lp' = "brain_visit"
  /\ who' = "brainKE"
  /\ pc' = "idle"
  /\ max_pages' = 0 /\ max_depth' = 0
  /\ urls_to_visit' = <<>>
  /\ processed_count' = 0
  /\ url' = Page(1) /\ depth' = 0 /\ text' = <<>>
  /\ dequeued' = <<>>
  /\ unsaved' = 0 /\ pagesAdded' = 0 /\ chunksAppended' = 0 /\ startCount' = 0
  /\ interruptedAt' = "none"
  /\ explored' = [a \in Agents |-> {}]
  /\ UNCHANGED <<calls, persisted, last>>

\* The crawl runs to completion inside the agent's call.
SysCrawl ==
  /\ lp \in {"brain_crawl", "ouro_crawl"}
  /\ CrawlStep(SysWebSize)

Next ==
  \/ BrainVisit
  \/ CycleFails
  \/ SysCrawl
  \/ BrainAfter
  \/ OuroVisit
  \/ OuroAfter
  \/ Maintenance
  \/ Interrupt
  \/ Restart

Spec == Init /\ [][Next]_vars

\* ------------------------------------------- one FAISSStore, call by call
\* The store under test is the one FAISSStore() a caller constructs; the
\* other holders stay unconstructed.
Subject == "loop"

\* An index file that faiss.read_index refuses, next to an older .texts file.
CorruptDisk ==
  [blob |-> [exists |-> TRUE, valid |-> FALSE, d |-> 0, vecs |-> <<>>],
   texts |-> SeededDisk.texts]
\* The index file is gone, the .texts file of an earlier run is still there.
OrphanTextsDisk == [blob |-> NoBlob, texts |-> SeededDisk.texts]
StoreDisks ==
  {FreshDisk, SeededDisk, ForeignDisk, CorruptDisk, OrphanTextsDisk}

\* The arguments of add_embeddings: the embeddings of one or two texts, with
\* those texts, with no texts (None), or with a list of another length.
StoreTexts == {TextA, TextB, TextDelim}
TextLists == UNION {[1..n -> StoreTexts] : n \in 1..MaxBatch}
AddBatches ==
  UNION {{[embeddings |-> EmbedText(ts), texts |-> ts],
          [embeddings |-> EmbedText(ts), texts |-> <<>>],
          [embeddings |-> EmbedText(ts), texts |-> Tail(ts)]}
         : ts \in TextLists}
\* distance_threshold as a fraction <<numerator, denominator>>.
Thresholds == {<<0, 1>>, <<1, 2>>, <<3, 2>>}
Queries == {EmbedOne(TextA), EmbedOne(TextDelim)}

InitStore ==
  /\ \E d0 \in StoreDisks :
       /\ disk = OpenStore(d0).disk
       /\ store = [h \in Holders |->
                     IF h = Subject THEN OpenStore(d0).store ELSE Closed]
       /\ last = [op |-> "open", before |-> d0]
  /\ visited = [k \in Extractors |-> {}]
  /\ scrapeLog = [k \in Extractors |-> <<>>]
  /\ lp = "store"
  /\ who = "brainKE"
  /\ pc = "idle"
  /\ max_pages = 0 /\ max_depth = 0
  /\ urls_to_visit = <<>>
  /\ processed_count = 0
  /\ url = Page(1) /\ depth = 0 /\ text = <<>>
  /\ calls = 0
  /\ dequeued = <<>>
  /\ unsaved = 0 /\ pagesAdded = 0 /\ chunksAppended = 0 /\ startCount = 0
  /\ interruptedAt = "none"
  /\ restarts = 0
  /\ explored = [a \in Agents |-> {}]
  /\ persisted = {}

\* What no call on a store touches.
crawlState ==
  <<visited, lp, params, pc, urls_to_visit, processed_count, locals, calls,
    dequeued, scrapeLog, unsaved, counts, interruptedAt, restarts, explored,
    persisted>>

\* store.add_embeddings(embeddings, texts)
StoreAdd ==
  /\ lp = "store"
  /\ \E b \in AddBatches :
       LET r == AddEmbeddings(store[Subject], b.embeddings, b.texts)
       IN /\ Len(store[Subject].vecs) + Len(b.embeddings) <= MaxStoreSize
          /\ Len(store[Subject].texts) + Len(b.texts) <= MaxStoreSize + 1
          /\ store' = [store EXCEPT ![Subject] = r.store]
          /\ last' = [op |-> "add", vectors |-> Len(b.embeddings),
                      texts |-> Len(b.texts), ok |-> r.ok]
  /\ UNCHANGED <<disk, crawlState>>

\* store.remove_duplicates(distance_threshold)
StoreDedup ==
  /\ lp = "store"
  /\ \E t \in Thresholds :
       LET r == RemoveDuplicates(store[Subject], disk, t[1], t[2])
       IN /\ store' = [store EXCEPT ![Subject] = r.store]
          /\ disk' = r.disk
          /\ last' = [op |-> "dedup", t |-> t, raised |-> r.raised,
                      removed |-> Len(store[Subject].vecs) - Len(r.store.vecs),
                      again |-> last.op = "dedup" /\ last.t = t,
                      removedBefore |-> IF last.op = "dedup" /\ last.t = t
                                        THEN last.removed ELSE 0]
  /\ UNCHANGED crawlState

\* store.save_index()
StoreSave ==
  /\ lp = "store"
  /\ disk' = SaveIndex(store[Subject], disk)
  /\ last' = [op |-> "save"]
  /\ UNCHANGED <<store, crawlState>>

\* FAISSStore() on the same path, replacing the store under test.
StoreReopen ==
  /\ lp = "store"
  /\ store' = [store EXCEPT ![Subject] = OpenStore(disk).store]
  /\ disk' = OpenStore(disk).disk
  /\ last' = [op |-> "open", before |-> disk]
  /\ UNCHANGED crawlState

\* store.search(query_embedding, top_k)
StoreSearch ==
  /\ lp = "store"
  /\ \E q \in Queries, k \in 0..MaxTopK :
       last' = [op |-> "search", q |-> q, k |-> k,
                out |-> Search(store[Subject], q, k)]
  /\ UNCHANGED <<disk, store, crawlState>>

NextStore ==
  \/ StoreAdd
  \/ StoreDedup
  \/ StoreSave
  \/ StoreReopen
  \/ StoreSearch

SpecStore == InitStore /\ [][NextStore]_vars

\* ------------------------------------------- _chunk_text, call by call
\* The i-th word of a text: i - 1 times "a", then "b"; all words differ.
Word(i) == [k \in 1..i |-> IF k = i THEN "b" ELSE "a"]
\* Whitespace between two words: a blank, or a blank and a line break.
Separators == {<<" ">>, <<" ", "n">>}
Paddings == {<<>>, <<" ">>}
RECURSIVE JoinWith(_, _)
JoinWith(ws, sep) ==
  IF ws = <<>> THEN <<>>
  ELSE IF Len(ws) = 1 THEN ws[1]
  ELSE ws[1] \o sep \o JoinWith(Tail(ws), sep)
\* The text argument: up to MaxWords words, any separator, with or without
\* whitespace at either end.
ChunkTexts ==
  {lead \o JoinWith([i \in 1..n |-> Word(i)], sep) \o trail :
     n \in 0..MaxWords, sep \in Separators, lead \in Paddings,
     trail \in Paddings}

InitChunk ==
  /\ text \in ChunkTexts
  /\ last = NoCall
  /\ lp = "chunk"
  /\ disk = FreshDisk
  /\ store = [h \in Holders |-> Closed]
  /\ visited = [k \in Extractors |-> {}]
  /\ scrapeLog = [k \in Extractors |-> <<>>]
  /\ who = "brainKE"
  /\ pc = "idle"
  /\ max_pages = 0 /\ max_depth = 0
  /\ urls_to_visit = <<>>
  /\ processed_count = 0
  /\ url = Page(1) /\ depth = 0
  /\ calls = 0
  /\ dequeued = <<>>
  /\ unsaved = 0 /\ pagesAdded = 0 /\ chunksAppended = 0 /\ startCount = 0
  /\ interruptedAt = "none"
  /\ restarts = 0
  /\ explored = [a \in Agents |-> {}]
  /\ persisted = {}

\* extractor._chunk_text(text, chunk_size, overlap)
ChunkCall ==
  /\ lp = "chunk"
  /\ \E chunk_size \in 1..MaxChunkSize, overlap \in 0..(MaxChunkSize + 1) :
       LET raised == ChunkTextRaises(text, chunk_size, overlap)
       IN last' = [op |-> "chunk", chunk_size |-> chunk_size,
                   overlap |-> overlap, raised |-> raised,
                   chunks |-> IF raised THEN <<>>
                              ELSE ChunkText(text, chunk_size, overlap)]
  /\ UNCHANGED <<disk, store, visited, lp, params, pc, urls_to_visit,
                 processed_count, locals, calls, dequeued, scrapeLog, unsaved,
                 counts, interruptedAt, restarts, explored, persisted>>

NextChunk == ChunkCall

SpecChunk == InitChunk /\ [][NextChunk]_vars

\* ------------------------------- ouro.embeddings.EmbeddingManager, by call
\* The embedding models of the configuration and the size of their vectors:
\* DEFAULT_EMBEDDING_MODEL and ALTERNATE_EMBEDDING_MODEL differ in it.
EmbeddingModels == {"default", "alternate"}
EmbeddingSize(model) == IF model = "default" THEN Dimension ELSE Dimension + 1
\* embed_query / embed_documents under a model.
EmbedWith(model, t) ==
  [i \in 1..EmbeddingSize(model) |->
     Count(t, Alphabet[((i - 1) % Len(Alphabet)) + 1])]

\* RecursiveCharacterTextSplitter.split_documents([doc]): no chunk for a
\* text without content, the text itself when it fits the chunk size, else
\* pieces cut at whitespace.
SplitDocument(t) ==
  IF SplitWords(t) = <<>> THEN <<>>
  ELSE IF Len(t) <= SplitterChunkSize THEN <<t>>
  ELSE ChunkText(t, 2, 0)
SplitDocuments(docs) == Flatten([k \in 1..Len(docs) |-> SplitDocument(docs[k])])

\* The directory faiss_index: index.faiss and index.pkl.
NoIndexDir == [blob |-> NoBlob, pkl |-> [exists |-> FALSE, documents |-> <<>>]]
\* EmbeddingManager._save_index
EmSave(m) ==
  [blob |-> [exists |-> TRUE, valid |-> TRUE, d |-> m.d, vecs |-> m.vecs],
   pkl |-> [exists |-> TRUE, documents |-> m.texts]]
\* EmbeddingManager.__init__ under a model: _load_index when both files
\* exist, else _create_empty_index with the model's embedding size.
EmOpen(model, dsk) ==
  IF dsk.blob.exists /\ dsk.pkl.exists
  THEN [manager |-> [d |-> dsk.blob.d, vecs |-> dsk.blob.vecs,
                     texts |-> dsk.pkl.documents, model |-> model],
        disk |-> dsk]
  ELSE LET m == [d |-> EmbeddingSize(model), vecs |-> <<>>, texts |-> <<>>,
                 model |-> model]
       IN [manager |-> m, disk |-> EmSave(m)]
\* EmbeddingManager.add_documents: index.add refuses vectors of another size
\* than the index, before the chunks are kept; the exception is re-raised.
EmAddDocuments(m, dsk, docs) ==
  LET chunks == SplitDocuments(docs)
      m2 == [m EXCEPT !.vecs = @ \o [k \in 1..Len(chunks) |->
                                        EmbedWith(m.model, chunks[k])],
                      !.texts = @ \o chunks]
  IN IF chunks = <<>> THEN [manager |-> m, disk |-> dsk, raised |-> FALSE]
     ELSE IF EmbeddingSize(m.model) # m.d
     THEN [manager |-> m, disk |-> dsk, raised |-> TRUE]
     ELSE [manager |-> m2, disk |-> EmSave(m2), raised |-> FALSE]
\* EmbeddingManager.similarity_search without filter, min_score = 0: the
\* documents returned. Every exception, that of index.search on a query of
\* another size than the index included, is logged and [] returned. Results
\* that index.search pads with -1 select documents[-1]; positions beyond the
\* documents are skipped.
SimilaritySearch(m, query, k) ==
  LET n == Len(m.texts)
      kk == Min(k, n)
      q == EmbedWith(m.model, query)
      order == NearestFirst(m.vecs, q)
      found == SelectSeq([r \in 1..Min(kk, Len(m.vecs)) |-> order[r]],
                         LAMBDA i : i <= n)
  IN IF n = 0 \/ kk = 0 THEN [documents |-> <<>>, raised |-> FALSE]
     ELSE IF kk < 0 \/ Len(q) # m.d
     THEN [documents |-> <<>>, raised |-> FALSE]
     ELSE [documents |->
             [r \in 1..Len(found) |-> m.texts[found[r]]]
               \o [r \in 1..(kk - Len(m.vecs)) |-> Last(m.texts)],
           raised |-> FALSE]

\* The documents given to add_documents: one or two page contents.
DocumentTexts == {<<>>, TextA, TextB, TextLong}
DocumentLists == UNION {[1..n -> DocumentTexts] : n \in 1..MaxBatch}

InitEmbed ==
  /\ \E model \in EmbeddingModels :
       /\ disk = EmOpen(model, NoIndexDir).disk
       /\ store = [h \in Holders |->
                     IF h = Subject THEN EmOpen(model, NoIndexDir).manager
                     ELSE Closed]
  /\ last = NoCall
  /\ lp = "embeddings"
  /\ visited = [k \in Extractors |-> {}]
  /\ scrapeLog = [k \in Extractors |-> <<>>]
  /\ who = "brainKE"
  /\ pc = "idle"
  /\ max_pages = 0 /\ max_depth = 0
  /\ urls_to_visit = <<>>
  /\ processed_count = 0
  /\ url = Page(1) /\ depth = 0 /\ text = <<>>
  /\ calls = 0
  /\ dequeued = <<>>
  /\ unsaved = 0 /\ pagesAdded = 0 /\ chunksAppended = 0 /\ startCount = 0
  /\ interruptedAt = "none"
  /\ restarts = 0
  /\ explored = [a \in Agents |-> {}]
  /\ persisted = {}

\* manager.add_documents(documents)
EmAdd ==
  /\ lp = "embeddings"
  /\ \E docs \in DocumentLists :
       LET r == EmAddDocuments(store[Subject], disk, docs)
       IN /\ Len(r.manager.texts) <= MaxDocuments
          /\ store' = [store EXCEPT ![Subject] = r.manager]
          /\ disk' = r.disk
          /\ last' = [op |-> "add_documents", raised |-> r.raised,
                      stored |-> Len(r.manager.texts)
                                   - Len(store[Subject].texts)]
  /\ UNCHANGED crawlState

\* manager.similarity_search(query, k)
EmSearch ==
  /\ lp = "embeddings"
  /\ \E query \in {TextA, TextLong}, k \in 0..MaxTopK :
       last' = [op |-> "similarity_search", k |-> k,
                out |-> SimilaritySearch(store[Subject], query, k)]
  /\ UNCHANGED <<disk, store, crawlState>>

\* manager.clear(): a new index of the current model's size, no documents.
EmClear ==
  /\ lp = "embeddings"
  /\ LET m == [store[Subject] EXCEPT
                 !.d = EmbeddingSize(store[Subject].model),
                 !.vecs = <<>>, !.texts = <<>>]
     IN /\ store' = [store EXCEPT ![Subject] = m]
        /\ disk' = EmSave(m)
  /\ last' = [op |-> "clear"]
  /\ UNCHANGED crawlState

\* manager.change_embedding_model(model_name): the index is saved and kept.
EmChangeModel ==
  /\ lp = "embeddings"
  /\ \E model \in EmbeddingModels :
       store' = [store EXCEPT ![Subject].model = model]
  /\ disk' = EmSave(store[Subject])
  /\ last' = [op |-> "change_embedding_model"]
  /\ UNCHANGED crawlState

\* EmbeddingManager(embedding_model) constructed again on the same directory.
EmReopen ==
  /\ lp = "embeddings"
  /\ \E model \in EmbeddingModels :
       /\ store' = [store EXCEPT ![Subject] = EmOpen(model, disk).manager]
       /\ disk' = EmOpen(model, disk).disk
  /\ last' = [op |-> "open"]
  /\ UNCHANGED crawlState

NextEmbed ==
  \/ EmAdd
  \/ EmSearch
  \/ EmClear
  \/ EmChangeModel
  \/ EmReopen

SpecEmbed == InitEmbed /\ [][NextEmbed]_vars

\* ----------------------------------------------------------------- claims
NoRepeats(q) == \A i, j \in 1..Len(q) : i # j => q[i] # q[j]
\* Two vectors closer than the threshold of the conversation loop's cleanups.
NearDuplicate(v, w) == SquaredL2(v, w) * ThresholdDen < ThresholdNum
\* A store opened on the path right after `s` was saved there.
Reopened(s, dsk) == OpenStore(SaveIndex(s, dsk)).store

\* C1: for a store holding N >= 0 records (each vector with its text),
\* save_index followed by opening a new store on the same path yields the
\* same N vectors and the same N texts in the same order.
C1_SaveThenOpenRoundTrips ==
  \A h \in Holders :
    (store[h] # Closed /\ Len(store[h].texts) = Len(store[h].vecs))
      => /\ Reopened(store[h], disk).vecs = store[h].vecs
         /\ Reopened(store[h], disk).texts = store[h].texts

\* C2: once an extractor has appended a page's chunks and saved them, they
\* remain in the on-disk index after any later save_index or remove_duplicates
\* of any holder, unless removed as near-duplicates of a record that stays.
C2_SavedChunksStayOnDisk ==
  \A v \in persisted :
    \E i \in 1..Len(disk.blob.vecs) : NearDuplicate(v, disk.blob.vecs[i])

\* C3: whenever a store tracks texts at all, it holds as many texts as vectors.
C3_TextsMatchVectors ==
  \A h \in Holders :
    store[h].texts # <<>> => Len(store[h].texts) = Len(store[h].vecs)

\* C4: the crawl never counts more than max_pages processed pages, in any
\* state of the loop and in the value it returns, whatever the frontier holds.
C4_PageBudget == processed_count <= max_pages
\* The budget is exhausted while the frontier still holds entries.
C4_Witness ==
  /\ pc = "return"
  /\ max_pages > 0
  /\ processed_count = max_pages
  /\ urls_to_visit # <<>>

\* C5: no URL appears twice among the frontier entries one crawl dequeues.
C5_NoUrlDequeuedTwice == NoRepeats(dequeued)

\* The URLs a step appends to the frontier: the seed when a crawl starts,
\* the filtered links when a page's links are enqueued.
AppendedToFrontier ==
  IF calls' = calls + 1 THEN {urls_to_visit'[1][1]}
  ELSE IF pc = "links"
  THEN {urls_to_visit'[i][1] :
          i \in (Len(urls_to_visit) + 1)..Len(urls_to_visit')}
  ELSE {}
\* C6: a URL enters an extractor's visited set at most once, and a URL in the
\* visited set is never again appended to the crawl frontier.
C6_VisitedOnceNeverReenqueued ==
  [][/\ \A k \in Extractors : NoRepeats(scrapeLog'[k])
     /\ \A u \in AppendedToFrontier : u \notin visited[who']]_vars

\* C7 as stated: at every point of the crawl fewer than 5 processed pages are
\* missing from the index the extractor last wrote, and none at the return.
C7_FewerThanFiveUnsaved ==
  /\ unsaved < SavePeriod
  /\ pc = "return" => disk.blob = WriteIndex(store[who])
\* C7 as amended: at every point of the crawl at most 5 pages have been
\* counted since the extractor last wrote the index (5 only between the
\* count of every fifth page and the save that ends its iteration, fewer
\* than 5 at every loop head); whenever none is pending the index on disk is
\* the extractor's index, vectors and texts, and so it is at the return.
C7_AtMostFiveUnsaved ==
  /\ unsaved <= SavePeriod
  /\ pc = "loop" => unsaved < SavePeriod
  /\ pc = "return" => unsaved = 0
  /\ (unsaved = 0 /\ pc # "idle")
       => /\ disk.blob = WriteIndex(store[who])
          /\ store[who].texts # <<>>
               => disk.texts.content = Serialize(store[who].texts)
\* The periodic save has just happened and the crawl goes on.
C7_Witness ==
  /\ pc = "loop"
  /\ processed_count = SavePeriod
  /\ unsaved = 0
  /\ LoopContinues(urls_to_visit, processed_count, max_pages)

\* C8: when Ctrl+C stops a running crawl, the index that received the pages
\* is saved before control returns, so every vector the crawl appended before
\* the interrupt is in the on-disk index afterwards.
C8_InterruptSavesCrawlIndex ==
  (lp = "stopped" /\ interruptedAt \notin {"none", "idle"})
    => \A v \in Appended : \E i \in 1..Len(disk.blob.vecs) : disk.blob.vecs[i] = v

\* C9: when the fetch of a dequeued URL fails or yields empty text, the URL
\* is not counted, none of its links are enqueued, nothing is added to the
\* index, no exception leaves the crawl, and the loop goes on at its head.
C9_FailedFetchIsSkipped ==
  [][pc = "scrape"
       => /\ pc' # "raised"
          /\ text' = <<>>
               => /\ pc' = "loop"
                  /\ processed_count' = processed_count
                  /\ urls_to_visit' = urls_to_visit
                  /\ store' = store]_vars
\* Three URLs were fetched, the second gave nothing, the third is processed.
C9_Witness ==
  /\ pc = "embed"
  /\ Len(scrapeLog[who]) = 3
  /\ processed_count = 1
  /\ text # <<>>

\* C10: the count returned is the number of pages whose chunks were appended
\* to the index during the call, and the index grew by exactly their chunks.
C10_CountIsPagesAdded ==
  pc = "return"
    => /\ processed_count = pagesAdded
       /\ Len(store[who].vecs) = startCount + chunksAppended

\* C11: remove_duplicates(t) called directly after remove_duplicates(t) with
\* the same threshold removes nothing: the vectors, their order and the text
\* payloads of the index are the same after the second call as before it.
C11_SecondDedupChangesNothing ==
  [][(last'.op = "dedup" /\ last'.again)
       => /\ store'[Subject].vecs = store[Subject].vecs
          /\ store'[Subject].texts = store[Subject].texts
          /\ last'.removed = 0]_vars
\* The second of two passes, the first of which removed a record.
C11_Witness ==
  /\ last.op = "dedup"
  /\ last.again
  /\ last.removedBefore > 0
  /\ ~last.raised
  /\ Len(store[Subject].vecs) >= 2

\* C12: for any index and any threshold, remove_duplicates never increases the
\* record count, and the record first in insertion order is still the first
\* record (ID 0) afterwards.
C12_DedupShrinksAndKeepsFirst ==
  [][last'.op = "dedup"
       => /\ Len(store'[Subject].vecs) <= Len(store[Subject].vecs)
          /\ last'.removed >= 0
          /\ store[Subject].vecs # <<>>
               => /\ store'[Subject].vecs # <<>>
                  /\ store'[Subject].vecs[1] = store[Subject].vecs[1]]_vars
\* A pass that removed a record and left more than one.
C12_Witness ==
  /\ last.op = "dedup"
  /\ last.removed > 0
  /\ Len(store[Subject].vecs) >= 2

\* C13: remove_duplicates keeps the survivors in insertion order and keeps
\* every surviving vector with its own text: on any store whose records carry
\* texts (the store serves texts[i] for record i), the record at new position
\* j carries the vector and the text of the j-th survivor.
C13_DedupKeepsPairing ==
  [][(/\ last'.op = "dedup"
      /\ ~last'.raised
      /\ store[Subject].texts # <<>>
      /\ Len(store[Subject].texts) >= Len(store[Subject].vecs))
       => LET survivors == UniqueIndices(store[Subject].vecs,
                                         last'.t[1], last'.t[2])
          IN /\ Len(store'[Subject].vecs) = Len(survivors)
             /\ \A j \in 1..Len(survivors) :
                  /\ store'[Subject].vecs[j] = store[Subject].vecs[survivors[j]]
                  /\ store'[Subject].texts[j]
                       = store[Subject].texts[survivors[j]]]_vars

\* The records that are no exact copy of an earlier record, in order.
FirstOccurrences(vecs) ==
  SelectSeq([i \in 1..Len(vecs) |-> i],
            LAMBDA i : \A j \in 1..(i - 1) : vecs[j] # vecs[i])
HasExactDuplicate(vecs) ==
  \E i, j \in 1..Len(vecs) : i < j /\ vecs[i] = vecs[j]

\* C14 as stated: with distance_threshold = 0, remove_duplicates discards
\* exactly the records that are exact duplicates (squared L2 distance 0) of an
\* earlier retained record and retains every other record.
C14_ZeroDropsExactDuplicates ==
  [][(last'.op = "dedup" /\ last'.t = <<0, 1>> /\ ~last'.raised)
       => LET first == FirstOccurrences(store[Subject].vecs)
          IN store'[Subject].vecs
               = [k \in 1..Len(first) |-> store[Subject].vecs[first[k]]]]_vars
\* C14 amended: with distance_threshold = 0, remove_duplicates discards no
\* record, not even an exact duplicate of an earlier record: vectors and texts
\* are the same after the call.
C14_ZeroDropsNothing ==
  [][(last'.op = "dedup" /\ last'.t = <<0, 1>>)
       => /\ store'[Subject].vecs = store[Subject].vecs
          /\ store'[Subject].texts = store[Subject].texts
          /\ last'.removed = 0]_vars
\* A pass at threshold 0 over a store that holds an exact duplicate.
C14_Witness ==
  /\ last.op = "dedup"
  /\ last.t = <<0, 1>>
  /\ ~last.raised
  /\ HasExactDuplicate(store[Subject].vecs)

\* The results of a search are the m nearest records of the store, nearest
\* first, records at the same distance by ascending insertion id.
NearestInOrder(out, vecs, q, m) ==
  LET dist(i) == SquaredL2(q, vecs[i])
      before(i, j) == dist(i) < dist(j) \/ (dist(i) = dist(j) /\ i < j)
  IN /\ ~out.raised
     /\ Len(out.ids) = m
     /\ Len(out.distances) = m
     /\ \A r \in 1..m : /\ out.ids[r] \in 1..Len(vecs)
                         /\ out.distances[r] = dist(out.ids[r])
     /\ \A r \in 1..(m - 1) : before(out.ids[r], out.ids[r + 1])
     /\ \A r \in 1..m, i \in 1..Len(vecs) :
          (\A x \in 1..m : out.ids[x] # i) => before(out.ids[r], i)
\* A search on a store of one or more records with a query of its dimension.
SearchedNonEmpty ==
  /\ last.op = "search"
  /\ Len(store[Subject].vecs) >= 1
  /\ Len(last.q) = store[Subject].d

C16_SearchOnEmptyReturnsEmpty ==
  (last.op = "search" /\ store[Subject].vecs = <<>>)
    => /\ ~last.out.raised
       /\ last.out.distances = <<>>
       /\ last.out.ids = <<>>
       /\ last.out.texts = <<>>

\* C17: add_embeddings called with a texts list whose length differs from the
\* number of vectors signals the violation to its caller and stores nothing:
\* the vectors and the texts of the index are the same after the call.
C17_MismatchedAddIsRefused ==
  [][(/\ last'.op = "add"
      /\ last'.texts # 0
      /\ last'.texts # last'.vectors)
       => /\ ~last'.ok
          /\ store'[Subject].vecs = store[Subject].vecs
          /\ store'[Subject].texts = store[Subject].texts]_vars

\* C18: FAISSStore() on a path whose index file is missing or unreadable
\* yields an empty index, no vectors and no texts, and persists it at once:
\* afterwards the index file holds the empty index and the texts on disk are
\* those of the empty index (none).
C18_OpenOnBadBlobYieldsEmpty ==
  (last.op = "open" /\ ~(last.before.blob.exists /\ last.before.blob.valid))
    => /\ store[Subject].vecs = <<>>
       /\ store[Subject].texts = <<>>
       /\ disk.blob = [exists |-> TRUE, valid |-> TRUE,
                       d |-> Dimension, vecs |-> <<>>]
       /\ TryLoadTexts(disk.texts) = <<>>

\* The words of the first chunk followed by the words each later chunk adds
\* behind its first `overlap` words.
RebuiltWords(chunks, overlap) ==
  IF chunks = <<>> THEN <<>>
  ELSE SplitWords(chunks[1])
         \o Flatten([k \in 1..(Len(chunks) - 1) |->
                       LET span == SplitWords(chunks[k + 1])
                       IN SubSeq(span, overlap + 1, Len(span))])

\* C19: for overlap < chunk_size and any text, _chunk_text returns chunks in
\* source order, none longer than chunk_size words, whose word spans, with
\* the overlap accounted for, rebuild the whole word sequence of the text
\* (the final shorter window included), and exactly one chunk when the text
\* has at most chunk_size words.
C19_ChunksRebuildTheWords ==
  (last.op = "chunk" /\ last.overlap < last.chunk_size)
    => /\ ~last.raised
       /\ RebuiltWords(last.chunks, last.overlap) = SplitWords(text)
       /\ \A k \in 1..Len(last.chunks) :
            Len(SplitWords(last.chunks[k])) <= last.chunk_size
       /\ Len(SplitWords(text)) <= last.chunk_size => Len(last.chunks) = 1
\* A text of more words than chunk_size, chunked with an overlap, whose last
\* window is shorter than chunk_size.
C19_Witness ==
  /\ last.op = "chunk"
  /\ last.overlap >= 1
  /\ last.overlap < last.chunk_size
  /\ Len(last.chunks) >= 3
  /\ Len(SplitWords(Last(last.chunks))) < last.chunk_size
  /\ text # JoinWords(SplitWords(text))

\* C20: _chunk_text called with overlap >= chunk_size reports a contract
\* violation to its caller, for every text; it never returns a chunk list.
C20_BadOverlapIsReported ==
  (last.op = "chunk" /\ last.overlap >= last.chunk_size) => last.raised

\* The seed of the running crawl: the first URL it dequeues.
CrawlSeed ==
  IF dequeued # <<>> THEN dequeued[1] ELSE Head(urls_to_visit)[1]
\* extract_knowledge_from_topic is running, or has returned, on topic "".
CalledWithEmptyTopic ==
  /\ pc # "idle"
  /\ (dequeued # <<>> \/ urls_to_visit # <<>>)
  /\ CrawlSeed = StartUrl(EmptyTopic)

\* C21: extract_knowledge_from_topic called with an empty topic string
\* refuses to start: it fetches no URL, adds nothing to the index and reports
\* zero pages processed.
C21_EmptyTopicIsRefused ==
  CalledWithEmptyTopic
    => /\ scrapeLog[who] = <<>>
       /\ Appended = {}
       /\ processed_count = 0

\* C22: the seed is enqueued at depth 0; every link found on a page dequeued
\* at depth d is enqueued behind the frontier at depth d + 1; no page is
\* processed from an entry deeper than max_depth; and (max_depth >= 0) no
\* entry deeper than max_depth is ever in the frontier.
C22_DepthsOfFrontier ==
  [][/\ (pc = "idle" /\ pc' = "loop")
          => /\ Len(urls_to_visit') = 1
             /\ urls_to_visit'[1][2] = 0
     /\ pc = "links"
          => /\ Len(urls_to_visit') >= Len(urls_to_visit)
             /\ SubSeq(urls_to_visit', 1, Len(urls_to_visit)) = urls_to_visit
             /\ \A k \in (Len(urls_to_visit) + 1)..Len(urls_to_visit') :
                  urls_to_visit'[k][2] = depth + 1
     /\ pc' \in {"scrape", "embed", "links", "checkpoint"}
          => depth' <= max_depth'
     /\ \A k \in 1..Len(urls_to_visit') :
          urls_to_visit'[k][2] <= max_depth']_vars
\* A page at depth max_depth = 2 is being processed while links found at
\* depth 1 still wait in the frontier.
C22_Witness ==
  /\ pc = "embed"
  /\ max_depth = 2
  /\ depth = 2
  /\ urls_to_visit # <<>>
  /\ \A k \in 1..Len(urls_to_visit) : urls_to_visit[k][2] = 2

IsPrefix(p, q) == Len(p) <= Len(q) /\ SubSeq(q, 1, Len(p)) = p

\* C23: pages are taken from the frontier in the order they were enqueued,
\* so the depths of successive pages never decrease; the chunks of a page
\* are appended to the index in source order behind everything appended
\* before, and no step of the crawl changes an earlier record or its id.
C23_FifoAndAppendOrder ==
  [][/\ Len(urls_to_visit') < Len(urls_to_visit)
          => /\ <<url', depth'>> = Head(urls_to_visit)
             /\ urls_to_visit' = Tail(urls_to_visit)
             /\ depth' >= depth
     /\ \A i, j \in 1..Len(urls_to_visit') :
          i < j => urls_to_visit'[i][2] <= urls_to_visit'[j][2]
     /\ pc = "embed"
          => LET chunks == ChunkText(text, ChunkSizeDefault, OverlapDefault)
             IN \/ /\ store'[who].vecs = store[who].vecs \o EmbedText(chunks)
                   /\ store'[who].texts = store[who].texts \o chunks
                \/ /\ store[who].d # Dimension
                   /\ store'[who] = store[who]
     /\ pc # "idle"
          => /\ IsPrefix(store[who].vecs, store'[who].vecs)
             /\ IsPrefix(store[who].texts, store'[who].texts)]_vars
\* A page of depth 2 has just been added behind the chunks of two pages
\* processed before it, one of which gave more than one chunk.
C23_Witness ==
  /\ pc = "links"
  /\ depth = 2
  /\ processed_count = 3
  /\ pagesAdded = 3
  /\ chunksAppended > 3
  /\ Len(store[who].vecs) = startCount + chunksAppended

\* A similarity_search with k >= 1 on a manager that holds stored chunks.
SearchedStoredChunks ==
  /\ last.op = "similarity_search"
  /\ last.k >= 1
  /\ Len(store[Subject].texts) >= 1

\* C24: once add_documents has stored at least one chunk,
\* similarity_search(query, k) with k >= 1, no filter and min_score 0
\* returns at least one document and at most min(k, stored chunks).
C24_SearchFindsStoredChunks ==
  SearchedStoredChunks
    => /\ Len(last.out.documents) >= 1
       /\ Len(last.out.documents) <= Min(last.k, Len(store[Subject].texts))
\* The part of C24 that holds: the same whenever the manager's model embeds
\* in the size of its index, and never more than min(k, stored chunks).
C24_HoldsWhenSizesAgree ==
  SearchedStoredChunks
    => /\ Len(last.out.documents) <= Min(last.k, Len(store[Subject].texts))
       /\ EmbeddingSize(store[Subject].model) = store[Subject].d
            => Len(last.out.documents)
                 = Min(last.k, Len(store[Subject].texts))


\* The positions of a subset of 1..n, ascending.
Ascending(S, n) == SelectSeq([i \in 1..n |-> i], LAMBDA i : i \in S)
\* A pass that returned on an index of at least two records.
DedupPassed(l, before) ==
  /\ l.op = "dedup"
  /\ ~l.raised
  /\ Len(before) >= 2

\* C25: remove_duplicates implements the greedy forward pass. The records
\* left by a pass with threshold t are those of a set of retained positions
\* such that a position is missing from the set if and only if its squared L2
\* distance to an earlier retained position is strictly below t; hence every
\* two survivors are at squared distance >= t, and every discarded record is
\* within t of a survivor that precedes it in insertion order.
C25_GreedyForwardPass ==
  [][DedupPassed(last', store[Subject].vecs)
       => LET old == store[Subject].vecs
              new == store'[Subject].vecs
              n == Len(old)
              near(i, j) == SquaredL2(old[i], old[j]) * last'.t[2] < last'.t[1]
          IN /\ \E R \in SUBSET (1..n) :
                  /\ new = [k \in 1..Cardinality(R) |-> old[Ascending(R, n)[k]]]
                  /\ \A i \in 1..n :
                       i \notin R <=> \E j \in R : j < i /\ near(i, j)
             /\ \A a, b \in 1..Len(new) :
                  a # b => SquaredL2(new[a], new[b]) * last'.t[2] >= last'.t[1]
             /\ Len(new) = n - last'.removed]_vars
\* A pass that discarded one record and left two survivors, further apart
\* than the threshold, the first of them within the threshold of the text
\* between them.
C25_Witness ==
  /\ last.op = "dedup"
  /\ ~last.raised
  /\ last.removed = 1
  /\ Len(store[Subject].vecs) = 2
  /\ SquaredL2(store[Subject].vecs[1], store[Subject].vecs[2]) = 2
  /\ SquaredL2(store[Subject].vecs[1], EmbedOne(TextDelim)) * last.t[2]
       < last.t[1]


EverEnqueued ==
  dequeued \o [k \in 1..Len(urls_to_visit) |-> urls_to_visit[k][1]]

\* C27: when the seed URL has a domain, every URL ever enqueued during the
\* crawl has the netloc of the seed, at every depth, and no link that was
\* enqueued ends with .pdf, .jpg, .png, .gif, .css or .js.
C27_EnqueuedStayOnSeedDomain ==
  (EverEnqueued # <<>> /\ EverEnqueued[1].netloc # "")
    => \A k \in 2..Len(EverEnqueued) :
         /\ EverEnqueued[k].netloc = EverEnqueued[1].netloc
         /\ EverEnqueued[k].ext \notin SkippedExtensions
\* A link found on a page at depth 1 is in the frontier, at depth 2.
C27_Witness ==
  /\ pc = "checkpoint"
  /\ depth = 1
  /\ urls_to_visit # <<>>
  /\ urls_to_visit[Len(urls_to_visit)][2] = 2
  /\ Len(EverEnqueued) >= 3


\* C28: whenever search returns a texts list, the list has one entry per
\* returned id, and its j-th entry is the text that was stored together with
\* the vector of the j-th returned id: the text that vector is the embedding
\* of. This after any sequence of open, add_embeddings and remove_duplicates.
C28_SearchTextsBelongToIds ==
  (last.op = "search" /\ ~last.out.raised /\ last.out.hasTexts)
    => /\ Len(last.out.texts) = Len(last.out.ids)
       /\ \A j \in 1..Len(last.out.ids) :
            EmbedOne(last.out.texts[j])
              = store[Subject].vecs[last.out.ids[j]]


\* The URLs in a sequence.
Range(q) == {q[i] : i \in 1..Len(q)}

\* C29: over the lifetime of one KnowledgeExtractor, whatever the number of
\* crawls, scrape_text fetches each URL at most once, the visited set holds
\* exactly the URLs fetched so far (failed fetches included) and loses none
\* between crawls (a restarted process constructs new extractors), and a
\* page's chunks are embedded only in the iteration
\* that fetched it: a URL visited before, in this crawl or an earlier one,
\* the seed of a repeated topic included, is skipped as empty.
C29_EachUrlScrapedOnce ==
  [][/\ \A k \in Extractors :
          /\ NoRepeats(scrapeLog'[k])
          /\ visited'[k] = Range(scrapeLog'[k])
          /\ restarts' = restarts => visited[k] \subseteq visited'[k]
     /\ (/\ pc = "scrape" /\ pc' # "scrape"
         /\ restarts' = restarts
         /\ url \in visited[who])
          => /\ text' = <<>>
             /\ pc' = "loop"
             /\ scrapeLog' = scrapeLog
             /\ store' = store
     /\ (pc = "scrape" /\ pc' = "embed")
          => scrapeLog'[who] = Append(scrapeLog[who], url)]_vars
\* The seed of a repeated topic, fetched in an earlier crawl of the same
\* extractor, has just been skipped as empty.
C29_Witness ==
  /\ pc = "loop"
  /\ calls >= 2
  /\ dequeued = <<url>>
  /\ text = <<>>
  /\ processed_count = 0
  /\ Len(scrapeLog[who]) >= 2
  /\ scrapeLog[who][1] = url


\* The word positions of the text that a chunk covers (the words of the texts
\* chunked here all differ, so a chunk's first word fixes its place).
Covered(chunk, words) ==
  LET span == SplitWords(chunk)
      start == CHOOSE i \in 1..Len(words) : words[i] = span[1]
  IN start..(start + Len(span) - 1)
\* _chunk_text has returned the chunks of a text of more than chunk_size
\* words, for an overlap below chunk_size.
ChunkedLongText ==
  /\ last.op = "chunk"
  /\ ~last.raised
  /\ last.overlap < last.chunk_size
  /\ Len(SplitWords(text)) > last.chunk_size

\* C30 as stated: for overlap < chunk_size and a text longer than chunk_size
\* words, every chunk after the first holds a word position that the chunk
\* before it does not cover, so no chunk is wholly contained in the one
\* before it.
C30_NoChunkInsideThePrevious ==
  ChunkedLongText
    => \A k \in 2..Len(last.chunks) :
         ~(Covered(last.chunks[k], SplitWords(text))
             \subseteq Covered(last.chunks[k - 1], SplitWords(text)))
\* C30 as amended: for overlap < chunk_size and a text of n > chunk_size
\* words, one chunk is returned for every multiple of chunk_size - overlap
\* below n; each chunk starts chunk_size - overlap words after the chunk
\* before it, and holds a word position the chunk before it does not cover
\* exactly when that chunk ends before the end of the text. A chunk that
\* follows a chunk reaching the last word is wholly contained in it; with
\* overlap = 0 there is no such chunk.
C30_ChunkInsideOnlyAfterTheEnd ==
  ChunkedLongText
    => LET words == SplitWords(text)
           n == Len(words)
           step == last.chunk_size - last.overlap
           cov(k) == Covered(last.chunks[k], words)
           top(S) == CHOOSE m \in S : \A x \in S : x <= m
       IN /\ Len(last.chunks) = (n + step - 1) \div step
          /\ \A k \in 1..Len(last.chunks) :
               cov(k) = ((k - 1) * step + 1)
                          ..Min((k - 1) * step + last.chunk_size, n)
          /\ \A k \in 2..Len(last.chunks) :
               (cov(k) \subseteq cov(k - 1)) <=> top(cov(k - 1)) = n
          /\ last.overlap = 0
               => \A k \in 2..Len(last.chunks) : cov(k) \cap cov(k - 1) = {}
\* A chunk list whose last chunk is wholly contained in the chunk before it.
C30_Witness ==
  /\ ChunkedLongText
  /\ Len(last.chunks) >= 3
  /\ Covered(Last(last.chunks), SplitWords(text))
       \subseteq Covered(last.chunks[Len(last.chunks) - 1], SplitWords(text))

====
